---- MODULE Spec2Model ----
(***************************************************************************)
(* SkillPath: the plan store of App (plans, active plan, selected day,     *)
(* local-storage persistence), the plan wizard and the AI refinement       *)
(* round trip, and the JSON extraction helper of the Gemini service.       *)
(*                                                                         *)
(* Time is counted in clock ticks; a calendar day is TicksPerDay ticks     *)
(* long and local midnight falls on the multiples of TicksPerDay.          *)
(***************************************************************************)
EXTENDS Integers, Sequences, FiniteSets, TLC

\* ---------------------------------------------------------------- bounds
MaxPlans == 2
MaxDays == 2
TasksPerDay == 2
MaxSessions == 2
MaxNow == 2
MaxSteps == 6
MaxTextLen == 5
MaxCalls == 3
MaxResponseLen == 3
MaxQuestions == 2
MaxOption == 1
MaxStale == 1
CalMaxDays == 3
MonthsPerYear == 3
MaxYear == 1

\* ------------------------------------------------------ program constants
TicksPerDay == 2
NoId == 0
NoDay == 0
UNDEF == "undefined"
NULL == -1
Undefined == -2

\* the day-numbers an AI response uses, and the identifiers uuidv4 hands out
MaxDayNumber == MaxDays
MaxIds == MaxPlans
DayNumbers == 1..MaxDayNumber
Titles == {"title", UNDEF}
NotesTexts == {"note"}

\* ------------------------------------------------------------- variables
VARIABLES
    mounted,        \* the App component is mounted and its mount effects ran
    storage,        \* localStorage under STORAGE_KEY
    plans,          \* useState plans
    activePlanId,   \* useState activePlanId
    viewMode,       \* useState viewMode
    selectedDay,    \* dayNumber of useState selectedDay, NoDay for null
    generatedPlan,  \* PlanWizard generatedPlan: <<>> or <<plan>>
    refineReq,      \* EditPlanModal request in flight: <<>> or <<kept fields>>
    ui,             \* the component state of PlanWizard and EditPlanModal
    now,            \* the clock: Date.now()
    nextId,         \* the next identifier uuidv4 hands out
    lastOp,         \* the last operation run, with its arguments
    preToggle,      \* the collection before the last operation, a toggleTask
    steps,          \* the number of operations run so far
    text,           \* the response text handed to extractJson
    result,         \* what extractJson returned or threw
    jpc,            \* where the call of extractJson stands
    svc,            \* a call of the Gemini service and the requests it issued
    quiz,           \* the state of a QuizModal and its requests in flight
    cal             \* the props and the state of a PlanCalendar

vars == <<mounted, storage, plans, activePlanId, viewMode, selectedDay,
          generatedPlan, refineReq, ui, now, nextId, lastOp, preToggle, steps, text, result, jpc,
          svc, quiz, cal>>

\* the variables of the plan store, and those of a call of extractJson
storeVars == <<mounted, storage, plans, activePlanId, viewMode, selectedDay,
               generatedPlan, refineReq, ui, now, nextId, lastOp, preToggle, steps>>
jsonVars == <<text, result, jpc>>

\* ---------------------------------------------------------------- helpers
Op(name, day, task, id) == [name |-> name, day |-> day, task |-> task, id |-> id]

\* Array.prototype.find: the first element satisfying the test, <<>> or <<e>>
FindPlan(ps, id) ==
    LET hits == {i \in DOMAIN ps : ps[i].id = id}
    IN IF hits = {} THEN <<>>
       ELSE <<ps[CHOOSE i \in hits : \A j \in hits : i <= j]>>

FindDay(days, dayNumber) ==
    LET hits == {i \in DOMAIN days : days[i].dayNumber = dayNumber}
    IN IF hits = {} THEN <<>>
       ELSE <<days[CHOOSE i \in hits : \A j \in hits : i <= j]>>

\* Array.prototype.filter
FilterOutId(ps, id) ==
    SelectSeq(ps, LAMBDA p : p.id # id)

\* day.sessions || []
SessionsOf(day) == IF "sessions" \in DOMAIN day THEN day.sessions ELSE <<>>

\* ------------------------------------------------------- extractJson
\* A response text is a sequence of tokens: the fence (three backticks), the
\* word json,
\* a letter, a digit, a double quote, the brackets and braces, and a blank.
Fence == "fence"
Quote == "q"
Blank == " "
Tokens == {Fence, "json", "x", "1", Quote, "[", "]", "{", "}", Blank}
Texts == UNION {[1..n -> Tokens] : n \in 1..MaxTextLen}

\* a text without its leading and trailing blanks
RECURSIVE Trim(_)
Trim(s) ==
    IF s = <<>> THEN s
    ELSE IF Head(s) = Blank THEN Trim(Tail(s))
    ELSE IF s[Len(s)] = Blank THEN Trim(SubSeq(s, 1, Len(s) - 1))
    ELSE s

Inner(s) == SubSeq(s, 2, Len(s) - 1)

\* the grammar JSON.parse accepts, over these tokens: a number, a string, an
\* empty object, an array of no or one value, blanks around any of them
IsNumber(s) == Len(s) > 0 /\ \A i \in DOMAIN s : s[i] = "1"
IsString(s) ==
    /\ Len(s) >= 2
    /\ s[1] = Quote
    /\ s[Len(s)] = Quote
    /\ \A i \in 2..(Len(s) - 1) : s[i] # Quote
IsObject(s) ==
    /\ Len(s) >= 2
    /\ s[1] = "{"
    /\ s[Len(s)] = "}"
    /\ Trim(Inner(s)) = <<>>

RECURSIVE IsValue(_)
IsValue(s) ==
    LET t == Trim(s)
    IN \/ IsNumber(t)
       \/ IsString(t)
       \/ IsObject(t)
       \/ /\ Len(t) >= 2
          /\ t[1] = "["
          /\ t[Len(t)] = "]"
          /\ (Trim(Inner(t)) = <<>> \/ IsValue(Inner(t)))

\* the value a valid text denotes: the text without insignificant blanks
RECURSIVE ValueOf(_)
ValueOf(s) ==
    LET t == Trim(s)
    IN IF IsNumber(t) \/ IsString(t) THEN t
       ELSE IF IsObject(t) THEN <<"{", "}">>
       ELSE IF Trim(Inner(t)) = <<>> THEN <<"[", "]">>
       ELSE <<"[">> \o ValueOf(Inner(t)) \o <<"]">>

\* the outcome of a call: a value returned, or an error thrown
Returned(v) == [ok |-> TRUE, val |-> v]
Thrown == [ok |-> FALSE, val |-> <<>>]

\* JSON.parse
JSONParseText(s) == IF IsValue(s) THEN Returned(ValueOf(s)) ELSE Thrown

IndicesOf(s, tok) == {i \in DOMAIN s : s[i] = tok}
Min(S) == CHOOSE x \in S : \A y \in S : x <= y
Max(S) == CHOOSE x \in S : \A y \in S : x >= y

\* text.match of the code-block pattern: it matches from the first fence when
\* a second fence follows
CodeBlockMatches(s) == Cardinality(IndicesOf(s, Fence)) >= 2

\* codeBlockMatch[1]: what stands between the opening fence, an optional
\* json tag and blanks after it, and the blanks before the next fence
CodeBlock(s) ==
    LET open == Min(IndicesOf(s, Fence))
        from == IF s[open + 1] = "json" THEN open + 2 ELSE open + 1
        close == Min({i \in IndicesOf(s, Fence) : i >= from})
    IN Trim(SubSeq(s, from, close - 1))

\* text.substring(firstOpen, lastClose + 1), positions counted from 1:
\* substring swaps its arguments when the first is the larger one
BraceSubstring(s) ==
    LET firstOpen == Min(IndicesOf(s, "{"))
        lastClose == Max(IndicesOf(s, "}"))
    IN IF firstOpen <= lastClose
       THEN SubSeq(s, firstOpen, lastClose)
       ELSE SubSeq(s, lastClose + 1, firstOpen - 1)

\* the catch block of extractJson
LastResort(s) ==
    IF /\ IndicesOf(s, "{") # {}
       /\ IndicesOf(s, "}") # {}
       /\ JSONParseText(BraceSubstring(s)).ok
    THEN JSONParseText(BraceSubstring(s))
    ELSE Thrown

extractJson(s) ==
    IF CodeBlockMatches(s)
    THEN (IF JSONParseText(CodeBlock(s)).ok
          THEN JSONParseText(CodeBlock(s))
          ELSE LastResort(s))
    ELSE IF JSONParseText(s).ok
    THEN JSONParseText(s)
    ELSE LastResort(s)

\* ------------------------------------------------- the Gemini service
\* formattedDays of generateLearningPlan: the days of the AI response, one
\* per requested day-number ns[i], every task not completed, its id
\* synthesised from the day-number and the position
FormatDays(ns, title) ==
    [i \in DOMAIN ns |->
        [dayNumber |-> ns[i],
         title |-> title,
         tasks |-> [k \in 1..TasksPerDay |->
                        [id |-> <<ns[i], k - 1>>, isCompleted |-> FALSE]]]]

\* updated days whose tasks are all marked completed
UpdatedDaysDone(ns, title, t) ==
    [i \in DOMAIN ns |->
        [dayNumber |-> ns[i],
         title |-> title,
         tasks |-> [k \in 1..TasksPerDay |->
                        [id |-> <<ns[i], k - 1, t>>, isCompleted |-> TRUE]]]]

\* updatedDays of updatePlanWithChat: as above, the id also carrying Date.now()
UpdatedDays(ns, title, t) ==
    [i \in DOMAIN ns |->
        [dayNumber |-> ns[i],
         title |-> title,
         tasks |-> [k \in 1..TasksPerDay |->
                        [id |-> <<ns[i], k - 1, t>>, isCompleted |-> FALSE]]]]

\* the fields of currentPlan that ...currentPlan carries into the plan
\* updatePlanWithChat resolves with
KeptFields(currentPlan) ==
    [id |-> currentPlan.id, topic |-> currentPlan.topic,
     dailyTime |-> currentPlan.dailyTime, startDate |-> currentPlan.startDate]

\* a refinement that does not stamp the time of the update
UpdatePlanWithChatUnstamped(kept, ns, title, t) ==
    [id |-> kept.id, topic |-> kept.topic, dailyTime |-> kept.dailyTime,
     startDate |-> kept.startDate,
     days |-> UpdatedDays(ns, title, t),
     durationDays |-> Len(ns),
     lastUpdated |-> kept.startDate]

\* the plan updatePlanWithChat resolves with
UpdatePlanWithChat(kept, ns, title, t) ==
    [id |-> kept.id, topic |-> kept.topic, dailyTime |-> kept.dailyTime,
     startDate |-> kept.startDate,
     days |-> UpdatedDays(ns, title, t),
     durationDays |-> Len(ns),
     lastUpdated |-> t]

\* the day lists an AI response can carry
AIDayLists == UNION {[1..n -> DayNumbers] : n \in 0..MaxDays}

\* newPlan of PlanWizard.handleSubmit
NewPlan(ns, title, id, t) ==
    [id |-> id, topic |-> "topic", durationDays |-> Len(ns),
     dailyTime |-> "30 mins", startDate |-> t, lastUpdated |-> t,
     days |-> FormatDays(ns, title)]

\* ------------------------------------------------------- persistence
AbsentStorage == [kind |-> "absent", doc |-> <<>>]
CorruptStorage == [kind |-> "corrupt", doc |-> <<>>]

\* the fields of a day that hold a string or undefined
StringFields == {"title", "notes"}

\* a property JSON.stringify writes: present and not undefined
Defined(obj, f) ==
    f \in DOMAIN obj /\ (f \in StringFields => obj[f] # UNDEF)

\* JSON.stringify of a day: properties whose value is undefined are dropped
StringifyDay(day) ==
    [f \in {g \in DOMAIN day : Defined(day, g)} |-> day[f]]

\* JSON.stringify(plans)
Stringify(ps) ==
    [i \in DOMAIN ps |->
        [ps[i] EXCEPT !.days = [j \in DOMAIN ps[i].days |->
                                    StringifyDay(ps[i].days[j])]]]

\* JSON.parse of a document JSON.stringify wrote
JSONParse(doc) == doc

\* a save effect that skips a collection of one plan
SaveEffectOffByOne(ps, old) ==
    IF Len(ps) > 1 THEN [kind |-> "json", doc |-> Stringify(ps)] ELSE old

\* the save effect: localStorage.setItem when the collection is not empty
SaveEffect(ps, old) ==
    IF Len(ps) > 0 THEN [kind |-> "json", doc |-> Stringify(ps)] ELSE old

\* the load effect run on mount, from the state useState constructs
LoadEffect(saved) ==
    IF saved.kind = "json"
    THEN LET parsedPlans == JSONParse(saved.doc)
         IN [plans |-> parsedPlans,
             activePlanId |-> IF Len(parsedPlans) > 0
                              THEN parsedPlans[1].id ELSE NoId,
             viewMode |-> IF Len(parsedPlans) > 0 THEN "view" ELSE "create"]
    ELSE IF saved.kind = "corrupt"
    THEN [plans |-> <<>>, activePlanId |-> NoId, viewMode |-> "view"]
    ELSE [plans |-> <<>>, activePlanId |-> NoId, viewMode |-> "create"]

\* --------------------------------------------- the auto-select effect
Midnight(t) == (t \div TicksPerDay) * TicksPerDay
Abs(n) == IF n < 0 THEN -n ELSE n
CeilDiv(a, b) == (a + b - 1) \div b

\* the day difference rounded down instead of up
DiffDaysFloor(startDate, t) == Abs(Midnight(t) - startDate) \div TicksPerDay

\* diffDays of the auto-select effect
DiffDays(startDate, t) == CeilDiv(Abs(Midnight(t) - startDate), TicksPerDay)

\* whether the effect finds a day to select, and the day-number it selects
AutoSelectHits(ps, active, t) ==
    /\ active # NoId
    /\ Len(ps) > 0
    /\ FindPlan(ps, active) # <<>>
    /\ LET plan == FindPlan(ps, active)[1]
       IN /\ Midnight(t) >= plan.startDate
          /\ DiffDays(plan.startDate, t) < Len(plan.days)
          /\ FindDay(plan.days, DiffDays(plan.startDate, t) + 1) # <<>>

AutoSelect(ps, active, sel, t) ==
    IF AutoSelectHits(ps, active, t)
    THEN DiffDays(FindPlan(ps, active)[1].startDate, t) + 1
    ELSE sel

\* ------------------------------------------------------ the handlers
\* a toggle that marks the task completed instead of flipping its flag
ToggleTaskDaysSet(days, dayNumber, taskId) ==
    [j \in DOMAIN days |->
        IF days[j].dayNumber # dayNumber THEN days[j]
        ELSE [days[j] EXCEPT !.tasks =
                [k \in DOMAIN days[j].tasks |->
                    IF days[j].tasks[k].id = taskId
                    THEN [days[j].tasks[k] EXCEPT !.isCompleted = TRUE]
                    ELSE days[j].tasks[k]]]]

\* the days of handleToggleTask: in every day with that day-number, every
\* task with that id has its flag flipped
ToggleTaskDays(days, dayNumber, taskId) ==
    [j \in DOMAIN days |->
        IF days[j].dayNumber # dayNumber THEN days[j]
        ELSE [days[j] EXCEPT !.tasks =
                [k \in DOMAIN days[j].tasks |->
                    IF days[j].tasks[k].id = taskId
                    THEN [days[j].tasks[k] EXCEPT
                            !.isCompleted = ~days[j].tasks[k].isCompleted]
                    ELSE days[j].tasks[k]]]]

\* the collection handleToggleTask sets
handleToggleTask(ps, active, dayNumber, taskId) ==
    IF active = NoId THEN ps
    ELSE [i \in DOMAIN ps |->
            IF ps[i].id # active THEN ps[i]
            ELSE [ps[i] EXCEPT
                    !.days = ToggleTaskDays(ps[i].days, dayNumber, taskId)]]

\* the collection handleUpdateNotes sets
handleUpdateNotes(ps, active, dayNumber, notes) ==
    IF active = NoId THEN ps
    ELSE [i \in DOMAIN ps |->
            IF ps[i].id # active THEN ps[i]
            ELSE [ps[i] EXCEPT !.days =
                    [j \in DOMAIN ps[i].days |->
                        IF ps[i].days[j].dayNumber # dayNumber
                        THEN ps[i].days[j]
                        ELSE [notes |-> notes] @@ ps[i].days[j]]]]

\* a running test that never finds the session running
IsRunningNever(sessions) == FALSE

\* isRunning of handleSessionToggle
IsRunning(sessions) ==
    IF Len(sessions) > 0 THEN sessions[Len(sessions)].end = NULL ELSE FALSE

\* a toggle that stamps the first session instead of the last
ToggledSessionsFirst(sessions, t) ==
    IF IsRunning(sessions)
       THEN [sessions EXCEPT ![1].end = t]
       ELSE Append(sessions, [start |-> t, end |-> NULL])

ToggledSessions(sessions, t) ==
    IF IsRunning(sessions)
       THEN [sessions EXCEPT ![Len(sessions)].end = t]
       ELSE Append(sessions, [start |-> t, end |-> NULL])

\* the collection handleSessionToggle sets
handleSessionToggle(ps, active, dayNumber, t) ==
    IF active = NoId THEN ps
    ELSE [i \in DOMAIN ps |->
            IF ps[i].id # active THEN ps[i]
            ELSE [ps[i] EXCEPT !.days =
                    [j \in DOMAIN ps[i].days |->
                        IF ps[i].days[j].dayNumber # dayNumber
                        THEN ps[i].days[j]
                        ELSE [sessions |->
                                ToggledSessions(SessionsOf(ps[i].days[j]), t)]
                             @@ ps[i].days[j]]]]

\* an update that replaces the plan at the head of the collection
handleUpdatePlanHead(ps, updatedPlan) ==
    [i \in DOMAIN ps |-> IF i = 1 THEN updatedPlan ELSE ps[i]]

\* an update that adds the plan when the collection has none with its id
handleUpdatePlanUpsert(ps, updatedPlan) ==
    IF FindPlan(ps, updatedPlan.id) = <<>> THEN <<updatedPlan>> \o ps
    ELSE [i \in DOMAIN ps |-> IF ps[i].id = updatedPlan.id THEN updatedPlan ELSE ps[i]]

\* the collection handleUpdatePlan sets
handleUpdatePlan(ps, updatedPlan) ==
    [i \in DOMAIN ps |-> IF ps[i].id = updatedPlan.id THEN updatedPlan ELSE ps[i]]

\* the collection handleCreatePlan sets
handleCreatePlan(ps, newPlan) == <<newPlan>> \o ps

\* a deletion that never re-points the active plan
DeleteActiveStale(ps, active, id) == active

\* a deletion of the active plan that leaves no plan active
DeleteActiveNone(ps, active, id) == IF active = id THEN NoId ELSE active

\* the active plan id handleDeletePlan leaves
DeleteActive(ps, active, id) ==
    IF active = id
    THEN (IF Len(FilterOutId(ps, id)) > 0 THEN FilterOutId(ps, id)[1].id ELSE NoId)
    ELSE active

\* the view mode handleDeletePlan leaves
DeleteViewMode(ps, active, id, vm) ==
    IF active = id /\ Len(FilterOutId(ps, id)) = 0 THEN "create" ELSE vm

\* newPlan.days[0] as the selected day: its day-number, NoDay for undefined
FirstDay(plan) == IF Len(plan.days) > 0 THEN plan.days[1].dayNumber ELSE NoDay

\* the task ids of the active plan, and one id no task has
NoSuchTask == <<NoDay, NoDay>>
TaskIdsOf(ps, active) ==
    {NoSuchTask} \cup
    UNION {UNION {{ps[i].days[j].tasks[k].id : k \in DOMAIN ps[i].days[j].tasks}
                  : j \in DOMAIN ps[i].days}
           : i \in {h \in DOMAIN ps : ps[h].id = active}}

\* ------------------------------------- the components before their use
\* no call of the service made yet
IdleService ==
    [fn |-> "none", pc |-> "idle", calls |-> 0, sent |-> 0,
     raised |-> "none", thrown |-> "none", value |-> <<>>]

\* the state useState constructs for a QuizModal, no request in flight
ClosedQuiz ==
    [isOpen |-> FALSE, loading |-> FALSE, questions |-> <<>>, currentIndex |-> 0,
     userAnswers |-> <<>>, showResults |-> FALSE, error |-> FALSE,
     pending |-> FALSE, stale |-> 0, last |-> "init"]

\* no PlanCalendar rendered
NoCalendar == [mounted |-> FALSE]

\* the state useState constructs for a PlanWizard (isRefining, error and the
\* originalPlan of the handleRefine in flight) and for an EditPlanModal
\* (isUpdating, messages); detached tells that the request in flight was
\* sent by an EditPlanModal that is no longer mounted
IdleUi ==
    [isRefining |-> FALSE, error |-> FALSE, originalPlan |-> <<>>,
     isUpdating |-> FALSE, messages |-> <<>>, detached |-> FALSE]

\* the component state after App renders: the PlanWizard is mounted in view
\* mode 'create' only, the EditPlanModal in view mode 'view' with an active
\* plan only; the state of an unmounted component is discarded and the
\* callbacks of its requests set nothing
Render(u, vm, ps, active, req) ==
    LET w == IF vm = "create" THEN u
             ELSE [u EXCEPT !.isRefining = FALSE, !.error = FALSE,
                            !.originalPlan = <<>>]
    IN IF vm = "view" /\ FindPlan(ps, active) # <<>> THEN w
       ELSE [w EXCEPT !.isUpdating = FALSE, !.messages = <<>>,
                      !.detached = (req # <<>>)]

\* the chat of the EditPlanModal once it was opened: the greeting first
Greeted(messages) == IF messages = <<>> THEN <<"greeting">> ELSE messages

\* handleSendMessage after its await: the message of the try or of the catch
\* block is appended and the finally block resets isUpdating, in the modal
\* that sent the request, if it is still mounted
ModalSettled(u, message) ==
    IF u.detached THEN [u EXCEPT !.detached = FALSE]
    ELSE [u EXCEPT !.isUpdating = FALSE, !.messages = Append(@, message)]

\* ---------------------------------------------------------------- Init
\* what an earlier run of the program left in storage: a one-plan
\* collection, as the wizard created it at time 0 with identifier 1
SeedPlans == <<NewPlan([i \in 1..MaxDays |-> i], "title", 1, 0)>>
SeedStorage == SaveEffect(SeedPlans, AbsentStorage)

Init ==
    /\ mounted = FALSE
    /\ storage \in {AbsentStorage, CorruptStorage, SeedStorage}
    /\ plans = <<>>
    /\ activePlanId = NoId
    /\ viewMode = "view"
    /\ selectedDay = NoDay
    /\ generatedPlan = <<>>
    /\ refineReq = <<>>
    /\ ui = IdleUi
    /\ now = 0
    /\ nextId = IF storage = SeedStorage THEN 2 ELSE 1
    /\ lastOp = Op("init", NoDay, NoSuchTask, NoId)
    /\ preToggle = <<>>
    /\ steps = 0
    /\ text = <<>>
    /\ result = Thrown
    /\ jpc = "idle"
    /\ svc = IdleService
    /\ quiz = ClosedQuiz
    /\ cal = NoCalendar

\* ------------------------------------------------------------- actions
\* one more operation of the store, while the run is within its bound
Step ==
    /\ steps < MaxSteps
    /\ steps' = steps + 1
    /\ UNCHANGED <<text, result, jpc, svc, quiz, cal>>

\* the state a handler leaves, after the save and auto-select effects that
\* the change of plans or of activePlanId triggers have run
Settle(ps, active, sel, vm, op) ==
    /\ plans' = ps
    /\ activePlanId' = active
    /\ viewMode' = vm
    /\ storage' = SaveEffect(ps, storage)
    /\ selectedDay' = AutoSelect(ps, active, sel, now)
    /\ lastOp' = op
    /\ preToggle' = IF op.name = "toggleTask" THEN plans ELSE <<>>

\* the page is loaded (or loaded again): useState constructs the state and
\* the mount effects run
Startup ==
    /\ Step
    /\ LET loaded == LoadEffect(storage)
       IN Settle(loaded.plans, loaded.activePlanId, NoDay, loaded.viewMode,
                 Op("startup", NoDay, NoSuchTask, NoId))
    /\ mounted' = TRUE
    /\ generatedPlan' = <<>>
    /\ refineReq' = <<>>
    /\ ui' = IdleUi
    /\ UNCHANGED <<now, nextId>>

\* time passes
Tick ==
    /\ Step
    /\ now < MaxNow
    /\ now' = now + 1
    /\ lastOp' = Op("tick", NoDay, NoSuchTask, NoId)
    /\ preToggle' = <<>>
    /\ UNCHANGED <<mounted, storage, plans, activePlanId, viewMode, selectedDay,
                   generatedPlan, refineReq, ui, nextId>>

\* the "New Plan" button
NewPlanButton ==
    /\ Step
    /\ mounted
    /\ viewMode = "view"
    /\ viewMode' = "create"
    /\ lastOp' = Op("newPlanButton", NoDay, NoSuchTask, NoId)
    /\ preToggle' = <<>>
    /\ ui' = Render(ui, "create", plans, activePlanId, refineReq)
    /\ UNCHANGED <<mounted, storage, plans, activePlanId, selectedDay,
                   generatedPlan, refineReq, now, nextId>>

\* PlanWizard.handleSubmit, at the moment the AI response arrives
WizardSubmit(ns, title) ==
    /\ Step
    /\ mounted
    /\ viewMode = "create"
    /\ generatedPlan = <<>>
    /\ nextId <= MaxIds
    /\ generatedPlan' = <<NewPlan(ns, title, nextId, now)>>
    /\ nextId' = nextId + 1
    /\ lastOp' = Op("wizardSubmit", NoDay, NoSuchTask, nextId)
    /\ preToggle' = <<>>
    /\ ui' = [ui EXCEPT !.error = FALSE]
    /\ UNCHANGED <<mounted, storage, plans, activePlanId, viewMode, selectedDay,
                   refineReq, now>>

\* the X button of the plan preview: setGeneratedPlan(null)
WizardBack ==
    /\ Step
    /\ mounted
    /\ viewMode = "create"
    /\ generatedPlan # <<>>
    /\ generatedPlan' = <<>>
    /\ lastOp' = Op("wizardBack", NoDay, NoSuchTask, NoId)
    /\ preToggle' = <<>>
    /\ UNCHANGED <<mounted, storage, plans, activePlanId, viewMode, selectedDay,
                   refineReq, ui, now, nextId>>

\* PlanWizard.handleRefine up to its await
WizardRefine ==
    /\ Step
    /\ mounted
    /\ viewMode = "create"
    /\ generatedPlan # <<>>
    /\ ~ui.isRefining
    /\ ui' = [ui EXCEPT !.isRefining = TRUE, !.error = FALSE,
                         !.originalPlan = generatedPlan]
    /\ lastOp' = Op("wizardRefine", NoDay, NoSuchTask, generatedPlan[1].id)
    /\ preToggle' = <<>>
    /\ UNCHANGED <<mounted, storage, plans, activePlanId, viewMode, selectedDay,
                   generatedPlan, refineReq, now, nextId>>

\* the request of handleRefine resolves: setGeneratedPlan(updated)
WizardRefineApply(ns, title) ==
    /\ Step
    /\ mounted
    /\ ui.isRefining
    /\ generatedPlan' =
         <<UpdatePlanWithChat(KeptFields(ui.originalPlan[1]), ns, title, now)>>
    /\ ui' = [ui EXCEPT !.isRefining = FALSE, !.originalPlan = <<>>]
    /\ lastOp' = Op("wizardRefineApply", NoDay, NoSuchTask, ui.originalPlan[1].id)
    /\ preToggle' = <<>>
    /\ UNCHANGED <<mounted, storage, plans, activePlanId, viewMode, selectedDay,
                   refineReq, now, nextId>>

\* the request of handleRefine fails: the catch and the finally block
WizardRefineFail ==
    /\ Step
    /\ mounted
    /\ ui.isRefining
    /\ generatedPlan' = ui.originalPlan
    /\ ui' = [ui EXCEPT !.isRefining = FALSE, !.error = TRUE,
                         !.originalPlan = <<>>]
    /\ lastOp' = Op("wizardRefineFail", NoDay, NoSuchTask, ui.originalPlan[1].id)
    /\ preToggle' = <<>>
    /\ UNCHANGED <<mounted, storage, plans, activePlanId, viewMode, selectedDay,
                   refineReq, now, nextId>>

\* PlanWizard.handleConfirm: handleCreatePlan(generatedPlan)
CreatePlan ==
    /\ Step
    /\ mounted
    /\ viewMode = "create"
    /\ generatedPlan # <<>>
    /\ Len(plans) < MaxPlans
    /\ LET newPlan == generatedPlan[1]
       IN Settle(handleCreatePlan(plans, newPlan), newPlan.id, FirstDay(newPlan),
                 "view", Op("createPlan", NoDay, NoSuchTask, newPlan.id))
    /\ generatedPlan' = <<>>
    /\ ui' = Render(ui, "view", plans', activePlanId', refineReq)
    /\ UNCHANGED <<mounted, refineReq, now, nextId>>

\* a click on a plan of the sidebar
SelectPlan(id) ==
    /\ Step
    /\ mounted
    /\ FindPlan(plans, id) # <<>>
    /\ plans' = plans
    /\ activePlanId' = id
    /\ viewMode' = "view"
    /\ selectedDay' = IF id # activePlanId
                      THEN AutoSelect(plans, id, selectedDay, now)
                      ELSE selectedDay
    /\ generatedPlan' = <<>>
    /\ ui' = Render(ui, "view", plans, id, refineReq)
    /\ lastOp' = Op("selectPlan", NoDay, NoSuchTask, id)
    /\ preToggle' = <<>>
    /\ UNCHANGED <<mounted, storage, refineReq, now, nextId>>

\* a click on a day of the calendar of the active plan: setSelectedDay(day)
SelectDay(dayNumber) ==
    /\ Step
    /\ mounted
    /\ viewMode = "view"
    /\ FindPlan(plans, activePlanId) # <<>>
    /\ FindDay(FindPlan(plans, activePlanId)[1].days, dayNumber) # <<>>
    /\ selectedDay' = dayNumber
    /\ lastOp' = Op("selectDay", dayNumber, NoSuchTask, activePlanId)
    /\ preToggle' = <<>>
    /\ UNCHANGED <<mounted, storage, plans, activePlanId, viewMode,
                   generatedPlan, refineReq, ui, now, nextId>>

\* handleDeletePlan, the confirmation accepted
DeletePlan(id) ==
    /\ Step
    /\ mounted
    /\ FindPlan(plans, id) # <<>>
    /\ Settle(FilterOutId(plans, id), DeleteActive(plans, activePlanId, id),
              selectedDay, DeleteViewMode(plans, activePlanId, id, viewMode),
              Op("deletePlan", NoDay, NoSuchTask, id))
    /\ ui' = Render(ui, viewMode', plans', activePlanId', refineReq)
    /\ UNCHANGED <<mounted, generatedPlan, refineReq, now, nextId>>

ToggleTask(dayNumber, taskId) ==
    /\ Step
    /\ mounted
    /\ Settle(handleToggleTask(plans, activePlanId, dayNumber, taskId),
              activePlanId, selectedDay, viewMode,
              Op("toggleTask", dayNumber, taskId, activePlanId))
    /\ UNCHANGED <<mounted, generatedPlan, refineReq, ui, now, nextId>>

UpdateNotes(dayNumber, notes) ==
    /\ Step
    /\ mounted
    /\ Settle(handleUpdateNotes(plans, activePlanId, dayNumber, notes),
              activePlanId, selectedDay, viewMode,
              Op("updateNotes", dayNumber, NoSuchTask, activePlanId))
    /\ UNCHANGED <<mounted, generatedPlan, refineReq, ui, now, nextId>>

ToggleSession(dayNumber) ==
    /\ Step
    /\ mounted
    /\ \A i \in DOMAIN plans : \A j \in DOMAIN plans[i].days :
          \/ plans[i].id # activePlanId
          \/ plans[i].days[j].dayNumber # dayNumber
          \/ IsRunning(SessionsOf(plans[i].days[j]))
          \/ Len(SessionsOf(plans[i].days[j])) < MaxSessions
    /\ Settle(handleSessionToggle(plans, activePlanId, dayNumber, now),
              activePlanId, selectedDay, viewMode,
              Op("toggleSession", dayNumber, NoSuchTask, activePlanId))
    /\ UNCHANGED <<mounted, generatedPlan, refineReq, ui, now, nextId>>

\* EditPlanModal.handleSendMessage up to its await: the request carries the
\* active plan as the modal was rendered with it
EditSend ==
    /\ Step
    /\ mounted
    /\ viewMode = "view"
    /\ FindPlan(plans, activePlanId) # <<>>
    /\ refineReq = <<>>
    /\ ~ui.isUpdating
    /\ ui' = [ui EXCEPT !.isUpdating = TRUE,
                         !.messages = Append(Greeted(ui.messages), "user")]
    /\ refineReq' = <<KeptFields(FindPlan(plans, activePlanId)[1])>>
    /\ lastOp' = Op("editSend", NoDay, NoSuchTask, activePlanId)
    /\ preToggle' = <<>>
    /\ UNCHANGED <<mounted, storage, plans, activePlanId, viewMode, selectedDay,
                   generatedPlan, now, nextId>>

\* the request resolves: onPlanUpdate(updatedPlan), i.e. handleUpdatePlan
ApplyPlanUpdate(ns, title) ==
    /\ Step
    /\ mounted
    /\ refineReq # <<>>
    /\ LET updatedPlan == UpdatePlanWithChat(refineReq[1], ns, title, now)
       IN Settle(handleUpdatePlan(plans, updatedPlan), activePlanId, selectedDay,
                 viewMode, [name |-> "applyPlanUpdate", day |-> NoDay,
                            task |-> NoSuchTask, id |-> updatedPlan.id,
                            plan |-> updatedPlan, resp |-> ns,
                            before |-> FindPlan(plans, updatedPlan.id)])
    /\ refineReq' = <<>>
    /\ ui' = ModalSettled(ui, "updated")
    /\ UNCHANGED <<mounted, generatedPlan, now, nextId>>

\* the request fails: only the chat shows it
EditFail ==
    /\ Step
    /\ mounted
    /\ refineReq # <<>>
    /\ refineReq' = <<>>
    /\ ui' = ModalSettled(ui, "error")
    /\ lastOp' = Op("editFail", NoDay, NoSuchTask, NoId)
    /\ preToggle' = <<>>
    /\ UNCHANGED <<mounted, storage, plans, activePlanId, viewMode, selectedDay,
                   generatedPlan, now, nextId>>

Next ==
    \/ Startup
    \/ Tick
    \/ NewPlanButton
    \/ \E ns \in AIDayLists, title \in Titles : WizardSubmit(ns, title)
    \/ WizardBack
    \/ WizardRefine
    \/ \E ns \in AIDayLists, title \in Titles : WizardRefineApply(ns, title)
    \/ WizardRefineFail
    \/ CreatePlan
    \/ \E id \in 1..MaxIds : SelectPlan(id)
    \/ \E d \in DayNumbers : SelectDay(d)
    \/ \E id \in 1..MaxIds : DeletePlan(id)
    \/ \E d \in DayNumbers, t \in TaskIdsOf(plans, activePlanId) : ToggleTask(d, t)
    \/ \E d \in DayNumbers, n \in NotesTexts : UpdateNotes(d, n)
    \/ \E d \in DayNumbers : ToggleSession(d)
    \/ EditSend
    \/ \E ns \in AIDayLists, title \in Titles : ApplyPlanUpdate(ns, title)
    \/ EditFail

Spec == Init /\ [][Next]_vars

\* ---------------------------------- extractJson called on a response text
InitJson ==
    /\ mounted = FALSE
    /\ storage = AbsentStorage
    /\ plans = <<>>
    /\ activePlanId = NoId
    /\ viewMode = "view"
    /\ selectedDay = NoDay
    /\ generatedPlan = <<>>
    /\ refineReq = <<>>
    /\ ui = IdleUi
    /\ now = 0
    /\ nextId = 1
    /\ lastOp = Op("init", NoDay, NoSuchTask, NoId)
    /\ preToggle = <<>>
    /\ steps = 0
    /\ text \in Texts
    /\ result = Thrown
    /\ jpc = "called"
    /\ svc = IdleService
    /\ quiz = ClosedQuiz
    /\ cal = NoCalendar

ExtractJson ==
    /\ jpc = "called"
    /\ result' = extractJson(text)
    /\ jpc' = "done"
    /\ UNCHANGED <<mounted, storage, plans, activePlanId, viewMode, selectedDay,
                   generatedPlan, refineReq, ui, now, nextId, lastOp, preToggle,
                   steps, text, svc, quiz, cal>>

NextJson == ExtractJson

SpecJson == InitJson /\ [][NextJson]_vars

\* -------------------------------------- the calls of the Gemini service
\* what ai.models.generateContent can settle with: a rejection, a response
\* without text, a response text, a response text that is the JSON of an
\* object with a days array
ResponseTexts == UNION {[1..n -> Tokens] : n \in 1..MaxResponseLen}
Responses ==
    {[kind |-> "rejection"], [kind |-> "noText"]}
    \cup {[kind |-> "text", text |-> s] : s \in ResponseTexts}
    \cup {[kind |-> "days", days |-> ns] : ns \in AIDayLists}

ServiceFunctions == {"generateLearningPlan", "updatePlanWithChat", "generateQuiz"}

\* a catch block that throws an error of its own
RethrowOther(error) == "Request failed"

\* catch (error) { console.error(...); throw error; }
Rethrow(error) == error

\* the error raised inside the try block of a service function, "none" when
\* the function reaches its return
Raised(fn, resp) ==
    IF resp.kind = "rejection" THEN "ServiceUnavailable"
    ELSE IF resp.kind = "noText" THEN "No response from Gemini"
    ELSE IF resp.kind = "text" /\ ~extractJson(resp.text).ok
    THEN "The model generated an invalid format. Please try again."
    ELSE IF fn # "generateQuiz" /\ resp.kind # "days"
    THEN "TypeError: data.days is undefined"
    ELSE "none"

\* the value a service function returns
ReturnValue(fn, resp, t) ==
    IF fn = "generateLearningPlan" THEN <<FormatDays(resp.days, "title")>>
    ELSE IF fn = "updatePlanWithChat" THEN <<UpdatedDays(resp.days, "title", t)>>
    ELSE IF resp.kind = "text" THEN <<extractJson(resp.text).val>>
    ELSE <<resp.days>>

InitService ==
    /\ mounted = FALSE
    /\ storage = AbsentStorage
    /\ plans = <<>>
    /\ activePlanId = NoId
    /\ viewMode = "view"
    /\ selectedDay = NoDay
    /\ generatedPlan = <<>>
    /\ refineReq = <<>>
    /\ ui = IdleUi
    /\ now = 0
    /\ nextId = 1
    /\ lastOp = Op("init", NoDay, NoSuchTask, NoId)
    /\ preToggle = <<>>
    /\ steps = 0
    /\ text = <<>>
    /\ result = Thrown
    /\ jpc = "idle"
    /\ svc = IdleService
    /\ quiz = ClosedQuiz
    /\ cal = NoCalendar

\* the user triggers an action that calls a service function: the function
\* runs up to its await, issuing its request
ServiceCall(fn) ==
    /\ svc.pc # "awaiting"
    /\ svc.calls < MaxCalls
    /\ svc' = [fn |-> fn, pc |-> "awaiting", calls |-> svc.calls + 1,
               sent |-> svc.sent + 1, raised |-> "none", thrown |-> "none",
               value |-> <<>>]
    /\ UNCHANGED <<storeVars, jsonVars, quiz, cal>>

\* the request settles and the function runs to its end
ServiceSettle(resp) ==
    /\ svc.pc = "awaiting"
    /\ LET error == Raised(svc.fn, resp)
       IN svc' = IF error # "none"
                 THEN [svc EXCEPT !.pc = "rejected", !.raised = error,
                                  !.thrown = Rethrow(error)]
                 ELSE [svc EXCEPT !.pc = "resolved",
                                  !.value = ReturnValue(svc.fn, resp, now)]
    /\ UNCHANGED <<storeVars, jsonVars, quiz, cal>>

NextService ==
    \/ \E fn \in ServiceFunctions : ServiceCall(fn)
    \/ \E resp \in Responses : ServiceSettle(resp)

SpecService == InitService /\ [][NextService]_vars

\* ------------------------------------------------------- the QuizModal
\* The requests of generateQuiz in flight: pending tells whether the request
\* of the latest run of the generation effect is in flight, stale counts the
\* requests of earlier runs still in flight.  A question is modelled by its
\* correctAnswerIndex, Undefined when the response leaves the property out.
OptionIndices == 0..MaxOption
Questions == {[correctAnswerIndex |-> c] : c \in OptionIndices \cup {Undefined}}
QuestionLists == UNION {[1..n -> Questions] : n \in 0..MaxQuestions}

\* userAnswers[idx], positions counted from 0
AnswerAt(userAnswers, idx) ==
    IF idx + 1 \in DOMAIN userAnswers THEN userAnswers[idx + 1] ELSE Undefined

\* newAnswers of handleAnswer: a copy with the option at currentIndex
NewAnswers(userAnswers, idx, optionIndex) ==
    [i \in 1..(IF idx + 1 > Len(userAnswers) THEN idx + 1 ELSE Len(userAnswers)) |->
        IF i = idx + 1 THEN optionIndex ELSE AnswerAt(userAnswers, i - 1)]

\* calculateScore: the positions where userAnswers[idx] === q.correctAnswerIndex
calculateScore(questions, userAnswers) ==
    Cardinality({i \in DOMAIN questions :
        AnswerAt(userAnswers, i - 1) = questions[i].correctAnswerIndex})

\* what the modal displays
Phase(q) ==
    IF ~q.isOpen THEN "Closed"
    ELSE IF q.loading \/ Len(q.questions) = 0
    THEN (IF ~q.error THEN "Loading" ELSE "Error")
    ELSE IF q.showResults THEN "Results"
    ELSE IF q.currentIndex < Len(q.questions) THEN "InProgress"
    ELSE "Preparing"

\* the generation effect, isOpen being true: the state is reset and one
\* request is issued
GenerationEffect(q, op) ==
    [isOpen |-> TRUE, loading |-> TRUE, questions |-> <<>>, currentIndex |-> 0,
     userAnswers |-> <<>>, showResults |-> FALSE, error |-> FALSE,
     pending |-> TRUE, stale |-> IF q.pending THEN q.stale + 1 ELSE q.stale,
     last |-> op]

\* the then-callback of the effect
ThenCallback(q, qs) ==
    IF Len(qs) = 0
    THEN [q EXCEPT !.error = TRUE, !.loading = FALSE, !.last = "reject"]
    ELSE [q EXCEPT !.questions = qs, !.loading = FALSE, !.last = "resolve"]

\* the catch-callback of the effect
CatchCallback(q) == [q EXCEPT !.error = TRUE, !.loading = FALSE, !.last = "reject"]

\* the request a response belongs to is no longer in flight
Settled(q, late) ==
    IF late THEN [q EXCEPT !.stale = q.stale - 1] ELSE [q EXCEPT !.pending = FALSE]

InFlight(q, late) == IF late THEN q.stale > 0 ELSE q.pending

InitQuiz == InitService

\* "Take Quiz" / "Generate Quiz": isOpen becomes true and the effect runs
QuizOpen ==
    /\ ~quiz.isOpen
    /\ quiz.pending => quiz.stale < MaxStale
    /\ quiz' = GenerationEffect(quiz, "open")
    /\ UNCHANGED <<storeVars, jsonVars, svc, cal>>

\* onClose: the modal renders nothing, its state stays
QuizClose ==
    /\ quiz.isOpen
    /\ quiz' = [quiz EXCEPT !.isOpen = FALSE, !.last = "close"]
    /\ UNCHANGED <<storeVars, jsonVars, svc, cal>>

\* contextText changes while the modal is open (the plan below the modal was
\* replaced): the effect runs again
QuizContextChange ==
    /\ quiz.isOpen
    /\ quiz.pending => quiz.stale < MaxStale
    /\ quiz' = GenerationEffect(quiz, "context")
    /\ UNCHANGED <<storeVars, jsonVars, svc, cal>>

\* a request of generateQuiz resolves with a list of questions
QuizResolve(qs, late) ==
    /\ InFlight(quiz, late)
    /\ quiz' = ThenCallback(Settled(quiz, late), qs)
    /\ UNCHANGED <<storeVars, jsonVars, svc, cal>>

\* a request of generateQuiz is rejected
QuizReject(late) ==
    /\ InFlight(quiz, late)
    /\ quiz' = CatchCallback(Settled(quiz, late))
    /\ UNCHANGED <<storeVars, jsonVars, svc, cal>>

\* handleAnswer, an option of the displayed question clicked
QuizAnswer(optionIndex) ==
    /\ Phase(quiz) = "InProgress"
    /\ quiz' = [quiz EXCEPT
                 !.userAnswers = NewAnswers(quiz.userAnswers, quiz.currentIndex,
                                            optionIndex),
                 !.last = "answer"]
    /\ UNCHANGED <<storeVars, jsonVars, svc, cal>>

\* handleNext, the button being enabled
QuizNext ==
    /\ Phase(quiz) = "InProgress"
    /\ AnswerAt(quiz.userAnswers, quiz.currentIndex) # Undefined
    /\ quiz' = IF quiz.currentIndex < Len(quiz.questions) - 1
               THEN [quiz EXCEPT !.currentIndex = quiz.currentIndex + 1,
                                 !.last = "next"]
               ELSE [quiz EXCEPT !.showResults = TRUE, !.last = "next"]
    /\ UNCHANGED <<storeVars, jsonVars, svc, cal>>

NextQuiz ==
    \/ QuizOpen
    \/ QuizClose
    \/ QuizContextChange
    \/ \E qs \in QuestionLists, late \in BOOLEAN : QuizResolve(qs, late)
    \/ \E late \in BOOLEAN : QuizReject(late)
    \/ \E optionIndex \in OptionIndices : QuizAnswer(optionIndex)
    \/ QuizNext

SpecQuiz == InitQuiz /\ [][NextQuiz]_vars

\* ----------------------------------------------------- the PlanCalendar
\* A Date at local midnight is a record of year, month and day of the month.
\* The model's year has MonthsPerYear months, the second one day long and the
\* others three days long.
DaysIn(m) == IF m = 2 THEN 1 ELSE 3
Months == 1..MonthsPerYear

\* how Date normalises a day of the month that lies outside the month
RECURSIVE Normalize(_, _, _)
Normalize(y, m, d) ==
    IF d > DaysIn(m)
    THEN (IF m = MonthsPerYear THEN Normalize(y + 1, 1, d - DaysIn(m))
          ELSE Normalize(y, m + 1, d - DaysIn(m)))
    ELSE IF d < 1
    THEN (IF m = 1 THEN Normalize(y - 1, MonthsPerYear, d + DaysIn(MonthsPerYear))
          ELSE Normalize(y, m - 1, d + DaysIn(m - 1)))
    ELSE [year |-> y, month |-> m, day |-> d]

\* date.setDate(n), date.setMonth(n) with months counted from 1, and
\* new Date(date.getFullYear(), date.getMonth(), 1)
SetDate(date, n) == Normalize(date.year, date.month, n)
SetMonth(date, n) ==
    IF n > MonthsPerYear THEN [date EXCEPT !.year = date.year + 1, !.month = 1]
    ELSE IF n < 1 THEN [date EXCEPT !.year = date.year - 1, !.month = MonthsPerYear]
    ELSE [date EXCEPT !.month = n]
FirstOfMonth(date) == [date EXCEPT !.day = 1]

\* d1 < d2 and d1 <= d2 on Dates
DateLT(d1, d2) ==
    \/ d1.year < d2.year
    \/ d1.year = d2.year /\ d1.month < d2.month
    \/ d1.year = d2.year /\ d1.month = d2.month /\ d1.day < d2.day
DateLE(d1, d2) == d1 = d2 \/ DateLT(d1, d2)

isSameDay(d1, d2) ==
    d1.year = d2.year /\ d1.month = d2.month /\ d1.day = d2.day

\* a getDayDate that stops at the end of the month
getDayDateClamped(startDate, dayNumber) ==
    [startDate EXCEPT !.day =
        IF startDate.day + (dayNumber - 1) > DaysIn(startDate.month)
        THEN DaysIn(startDate.month) ELSE startDate.day + (dayNumber - 1)]

getDayDate(startDate, dayNumber) ==
    SetDate(startDate, startDate.day + (dayNumber - 1))

\* the initial viewDate: the month of the selected day, or of today when
\* today lies between startDate and endDate, or of startDate
InitialViewDate(plan, sel, today) ==
    IF sel # NoDay
    THEN FirstOfMonth(SetDate(plan.startDate, plan.startDate.day + (sel - 1)))
    ELSE LET endDate == SetDate(plan.startDate,
                                plan.startDate.day + plan.durationDays)
         IN IF DateLE(plan.startDate, today) /\ DateLE(today, endDate)
            THEN FirstOfMonth(today)
            ELSE FirstOfMonth(plan.startDate)

\* the effect on selectedDay: viewDate follows the selected day
SelectedDayEffect(plan, sel, prev) ==
    IF sel # NoDay
    THEN FirstOfMonth(SetDate(plan.startDate, plan.startDate.day + (sel - 1)))
    ELSE prev

\* allCompleted of getStatusColor and getBorderClass
AllCompleted(day) ==
    Len(day.tasks) > 0 /\ \A k \in DOMAIN day.tasks : day.tasks[k]

\* getStatusColor, the classes named by the status they paint
getStatusColor(day, date, today) ==
    IF AllCompleted(day) THEN "completed"
    ELSE IF DateLT(date, today) /\ ~AllCompleted(day) THEN "missed"
    ELSE IF isSameDay(date, today) THEN "today"
    ELSE "upcoming"

\* getBorderClass, the classes named by the status they paint
getBorderClass(day, date, today, isSelected) ==
    IF isSelected THEN "selected"
    ELSE IF isSameDay(date, today) THEN "today"
    ELSE IF AllCompleted(day) THEN "completed"
    ELSE IF DateLT(date, today) THEN "missed"
    ELSE "upcoming"

\* completedCount and totalTasks of a day card, its check mark and the class
\* of its progress bar
CompletedCount(day) == Cardinality({k \in DOMAIN day.tasks : day.tasks[k]})
TotalTasks(day) == Len(day.tasks)
CheckMark(day) == CompletedCount(day) = TotalTasks(day) /\ TotalTasks(day) > 0
ProgressBarClass(day) ==
    IF CompletedCount(day) = TotalTasks(day) THEN "completed" ELSE "progress"

\* currentDays: the positions of the days shown for a viewed month
CurrentDays(plan, viewDate) ==
    {j \in DOMAIN plan.days :
        LET date == getDayDate(plan.startDate, plan.days[j].dayNumber)
        IN date.month = viewDate.month /\ date.year = viewDate.year}

planEndMonth(plan) ==
    FirstOfMonth(SetDate(plan.startDate,
                         plan.startDate.day + plan.durationDays - 1))
planStartMonth(plan) == FirstOfMonth(plan.startDate)
canGoPrev(c) == DateLT(planStartMonth(c.plan), c.viewDate)
canGoNext(c) == DateLT(c.viewDate, planEndMonth(c.plan))

\* the plans a calendar is rendered with: days numbered from 1, as many as
\* the duration, every day with no, one or more tasks, completed or not,
\* started on any date of the years before the last
CalTaskLists == UNION {[1..n -> BOOLEAN] : n \in 0..TasksPerDay}
StartDates ==
    {[year |-> y, month |-> m, day |-> d] :
        y \in 0..(MaxYear - 1), m \in Months, d \in 1..3} \ 
    {[year |-> y, month |-> 2, day |-> d] : y \in 0..(MaxYear - 1), d \in 2..3}
CalPlans ==
    UNION {{[startDate |-> sd, durationDays |-> n,
             days |-> [j \in 1..n |-> [dayNumber |-> j, tasks |-> ts[j]]]] :
              sd \in StartDates, ts \in [1..n -> CalTaskLists]}
           : n \in 1..CalMaxDays}

\* the day-numbers of a plan, and no day
SelectableDays(plan) == {NoDay} \cup {plan.days[j].dayNumber : j \in DOMAIN plan.days}

\* today at the time of a render: from the start date to the day after the
\* plan's last day
Todays(plan) == {getDayDate(plan.startDate, k) : k \in 1..(plan.durationDays + 2)}

InitCal == InitService

\* the calendar is rendered for the first time, with a plan, a selected day
\* or none, on some day: useState constructs viewDate and the effect runs
CalMount ==
    /\ ~cal.mounted
    /\ \E plan \in CalPlans :
         \E sel \in SelectableDays(plan), today \in Todays(plan) :
            cal' = [mounted |-> TRUE, plan |-> plan, selectedDay |-> sel,
                    today |-> today,
                    viewDate |-> SelectedDayEffect(plan, sel,
                                    InitialViewDate(plan, sel, today))]
    /\ UNCHANGED <<storeVars, jsonVars, svc, quiz>>

\* the plan view is left: the calendar is unmounted
CalUnmount ==
    /\ cal.mounted
    /\ cal' = NoCalendar
    /\ UNCHANGED <<storeVars, jsonVars, svc, quiz>>

\* a day card is clicked: onSelectDay, then the effect
CalSelectDay(j) ==
    /\ cal.mounted
    /\ j \in CurrentDays(cal.plan, cal.viewDate)
    /\ cal' = [cal EXCEPT
                !.selectedDay = cal.plan.days[j].dayNumber,
                !.viewDate = SelectedDayEffect(cal.plan, cal.plan.days[j].dayNumber,
                                               cal.viewDate)]
    /\ UNCHANGED <<storeVars, jsonVars, svc, quiz>>

\* nextMonth and prevMonth, their buttons being enabled
CalNextMonth ==
    /\ cal.mounted
    /\ canGoNext(cal)
    /\ cal' = [cal EXCEPT !.viewDate = SetMonth(cal.viewDate, cal.viewDate.month + 1)]
    /\ UNCHANGED <<storeVars, jsonVars, svc, quiz>>

CalPrevMonth ==
    /\ cal.mounted
    /\ canGoPrev(cal)
    /\ cal' = [cal EXCEPT !.viewDate = SetMonth(cal.viewDate, cal.viewDate.month - 1)]
    /\ UNCHANGED <<storeVars, jsonVars, svc, quiz>>

\* a day passes and the calendar is rendered again
CalTick ==
    /\ cal.mounted
    /\ SetDate(cal.today, cal.today.day + 1) \in Todays(cal.plan)
    /\ cal' = [cal EXCEPT !.today = SetDate(cal.today, cal.today.day + 1)]
    /\ UNCHANGED <<storeVars, jsonVars, svc, quiz>>

NextCal ==
    \/ CalMount
    \/ CalUnmount
    \/ \E j \in 1..CalMaxDays : CalSelectDay(j)
    \/ CalNextMonth
    \/ CalPrevMonth
    \/ CalTick

SpecCal == InitCal /\ [][NextCal]_vars

\* ================================================================ claims
\* the three strategies, each tried once in this order, the first that
\* parses deciding the result: the content of the first fenced block, the
\* whole text, the text from the first "{" to the last "}"
FirstToLastBrace(s) ==
    IF /\ IndicesOf(s, "{") # {}
       /\ IndicesOf(s, "}") # {}
       /\ Min(IndicesOf(s, "{")) <= Max(IndicesOf(s, "}"))
    THEN SubSeq(s, Min(IndicesOf(s, "{")), Max(IndicesOf(s, "}")))
    ELSE <<>>

Cascade(s) ==
    IF CodeBlockMatches(s) /\ JSONParseText(CodeBlock(s)).ok
    THEN JSONParseText(CodeBlock(s))
    ELSE IF JSONParseText(s).ok
    THEN JSONParseText(s)
    ELSE JSONParseText(FirstToLastBrace(s))

\* C1: extractJson returns the result of the first of the three strategies
\* that parses (fenced block, whole text, first "{" to last "}"), the whole
\* text being tried also when a fenced block fails to parse, and throws
\* exactly when none of the three parses.
C1_FirstStrategyWins ==
    jpc = "done" => result = Cascade(text)

\* the days the operation addresses: those of the active plan with the
\* day-number given
Addressed(p, day, active, dayNumber) ==
    p.id = active /\ day.dayNumber = dayNumber

\* the last operation toggled a session of day-number d
SessionStep == lastOp'.name = "toggleSession" /\ steps' = steps + 1

\* C2: toggleSession(dayNumber) closes the day's last session when it is open,
\* stamping the current time as its end (end >= start), and otherwise appends
\* one open session started at the current time; in particular a day with no
\* sessions gets one open session, and the next call closes that session.
\* No other session, of that day or of any other day, changes.
C2_ToggleSessionStep ==
    /\ Len(plans') = Len(plans)
    /\ \A i \in DOMAIN plans :
        /\ Len(plans'[i].days) = Len(plans[i].days)
        /\ \A j \in DOMAIN plans[i].days :
            LET before == SessionsOf(plans[i].days[j])
                after == SessionsOf(plans'[i].days[j])
                n == Len(before)
            IN IF ~Addressed(plans[i], plans[i].days[j], activePlanId, lastOp'.day)
               THEN after = before
               ELSE IF n > 0 /\ before[n].end = NULL
               THEN /\ Len(after) = n
                    /\ \A k \in 1..(n - 1) : after[k] = before[k]
                    /\ after[n].start = before[n].start
                    /\ after[n].end = now
                    /\ after[n].end >= after[n].start
               ELSE /\ Len(after) = n + 1
                    /\ \A k \in 1..n : after[k] = before[k]
                    /\ after[n + 1] = [start |-> now, end |-> NULL]

C2_ToggleSession == [][SessionStep => C2_ToggleSessionStep]_vars

\* the only session of a day, opened at an earlier time, has just been closed
C2_Witness ==
    /\ lastOp.name = "toggleSession"
    /\ \E i \in DOMAIN plans : \E j \in DOMAIN plans[i].days :
        /\ Addressed(plans[i], plans[i].days[j], activePlanId, lastOp.day)
        /\ Len(SessionsOf(plans[i].days[j])) = 1
        /\ SessionsOf(plans[i].days[j])[1].end # NULL
        /\ SessionsOf(plans[i].days[j])[1].end = now
        /\ SessionsOf(plans[i].days[j])[1].start < now

\* C3: every day of every plan has at most one open session, and an open
\* session is the last of the day's sessions.
C3_OpenSessionIsLast ==
    \A i \in DOMAIN plans : \A j \in DOMAIN plans[i].days :
        \A k \in DOMAIN SessionsOf(plans[i].days[j]) :
            SessionsOf(plans[i].days[j])[k].end = NULL
                => k = Len(SessionsOf(plans[i].days[j]))

\* a day with a closed session followed by an open one
C3_Witness ==
    \E i \in DOMAIN plans : \E j \in DOMAIN plans[i].days :
        /\ Len(SessionsOf(plans[i].days[j])) = 2
        /\ SessionsOf(plans[i].days[j])[1].end # NULL
        /\ SessionsOf(plans[i].days[j])[2].end = NULL

\* the positions of the tasks of a collection, and the flag at a position
Positions(ps) ==
    {x \in (DOMAIN ps) \X (1..MaxDays) \X (1..TasksPerDay) :
        /\ x[2] \in DOMAIN ps[x[1]].days
        /\ x[3] \in DOMAIN ps[x[1]].days[x[2]].tasks}
FlagAt(ps, x) == ps[x[1]].days[x[2]].tasks[x[3]].isCompleted

\* a collection with every completion flag cleared: all but the flags
Unflagged(ps) ==
    [i \in DOMAIN ps |->
        [ps[i] EXCEPT !.days =
            [j \in DOMAIN ps[i].days |->
                [ps[i].days[j] EXCEPT !.tasks =
                    [k \in DOMAIN ps[i].days[j].tasks |->
                        [ps[i].days[j].tasks[k] EXCEPT !.isCompleted = FALSE]]]]]]

\* the completion flags of a collection
Flags(ps) ==
    [i \in DOMAIN ps |->
        [j \in DOMAIN ps[i].days |->
            [k \in DOMAIN ps[i].days[j].tasks |->
                ps[i].days[j].tasks[k].isCompleted]]]

\* the tasks toggleTask(dayNumber, taskId) addresses
Targets(ps, active, dayNumber, taskId) ==
    {x \in Positions(ps) :
        /\ ps[x[1]].id = active
        /\ ps[x[1]].days[x[2]].dayNumber = dayNumber
        /\ ps[x[1]].days[x[2]].tasks[x[3]].id = taskId}

ToggleTaskStep == lastOp'.name = "toggleTask" /\ steps' = steps + 1

\* C4: toggleTask(dayNumber, taskId) flips the completion flag of exactly one
\* task of the whole store, a task with that id in a day with that day-number
\* of the active plan, and changes nothing else; when the active plan has no
\* such task, or no plan is active, the collection's content is unchanged.
C4_FlipsExactlyOneStep ==
    LET targets == Targets(plans, activePlanId, lastOp'.day, lastOp'.task)
    IN /\ Unflagged(plans') = Unflagged(plans)
       /\ IF targets = {}
          THEN plans' = plans
          ELSE \E x \in targets :
                 \A y \in Positions(plans) :
                    FlagAt(plans', y) = IF y = x THEN ~FlagAt(plans, y)
                                        ELSE FlagAt(plans, y)

C4_FlipsExactlyOne == [][ToggleTaskStep => C4_FlipsExactlyOneStep]_vars

\* C5: a toggleTask called twice in a row with the same arguments leaves every
\* completion flag of the collection as it was before the first call.
C5_DoubleToggleStep ==
    (/\ lastOp.name = "toggleTask"
     /\ lastOp'.day = lastOp.day
     /\ lastOp'.task = lastOp.task)
    => Flags(plans') = Flags(preToggle)

C5_DoubleToggle == [][ToggleTaskStep => C5_DoubleToggleStep]_vars

\* a toggle has just cleared the flag of a task: the task was completed by an
\* earlier toggle and this one undid it
C5_Witness ==
    /\ lastOp.name = "toggleTask"
    /\ preToggle # plans
    /\ \E x \in Positions(plans) : FlagAt(preToggle, x) /\ ~FlagAt(plans, x)
    /\ \A x \in Positions(plans) : ~FlagAt(plans, x)

CreateStep == lastOp'.name = "createPlan" /\ steps' = steps + 1

\* the new plan heads the collection, the previous plans follow in their
\* order, and the new plan is the active plan
CreatePrepends ==
    /\ plans' = <<generatedPlan[1]>> \o plans
    /\ activePlanId' = generatedPlan[1].id

WholeDaysSince(startDate, t) ==
    CHOOSE n \in 0..(MaxNow + TicksPerDay) :
        /\ n * TicksPerDay >= Midnight(t) - startDate
        /\ \A m \in 0..(n - 1) : m * TicksPerDay < Midnight(t) - startDate

\* today's day of a plan: the first day whose number is one more than the
\* whole days since its start, when local midnight of today is not before the
\* start timestamp and that count is below the number of days
TodaysDay(plan, t) ==
    IF /\ Midnight(t) >= plan.startDate
       /\ WholeDaysSince(plan.startDate, t) < Len(plan.days)
       /\ \E j \in DOMAIN plan.days :
            plan.days[j].dayNumber = WholeDaysSince(plan.startDate, t) + 1
    THEN WholeDaysSince(plan.startDate, t) + 1
    ELSE NoDay

DeleteStep == lastOp'.name = "deletePlan" /\ steps' = steps + 1

\* the index of the plan with the identifier
IndexOf(ps, id) == CHOOSE i \in DOMAIN ps : ps[i].id = id

\* C7: deletePlan(id) removes exactly the plan with that id and keeps the
\* others in order; the active plan becomes the head of what remains (none
\* when nothing remains) if the removed plan was active, and is unchanged
\* otherwise.
C7_DeleteStep ==
    LET id == lastOp'.id
        at == IndexOf(plans, id)
    IN /\ Cardinality({i \in DOMAIN plans : plans[i].id = id}) = 1
       /\ Len(plans') = Len(plans) - 1
       /\ \A i \in DOMAIN plans' :
            plans'[i] = IF i < at THEN plans[i] ELSE plans[i + 1]
       /\ activePlanId' = IF activePlanId # id THEN activePlanId
                          ELSE IF Len(plans') > 0 THEN plans'[1].id
                          ELSE NoId

C7_DeletePlan == [][DeleteStep => C7_DeleteStep]_vars

\* the active plan, the second of two, was deleted: the head is active now
C7_Witness ==
    /\ lastOp.name = "deletePlan"
    /\ Len(plans) = 1
    /\ activePlanId = plans[1].id
    /\ lastOp.id < activePlanId

UpdateStep == lastOp'.name = "applyPlanUpdate" /\ steps' = steps + 1

\* C8: applyPlanUpdate(updatedPlan) replaces in full the plan with the id of
\* updatedPlan, where it stands, and leaves every other plan, the length of
\* the collection and the active plan id unchanged.
C8_UpdateStep ==
    /\ Len(plans') = Len(plans)
    /\ \A i \in DOMAIN plans :
        plans'[i] = IF plans[i].id = lastOp'.plan.id THEN lastOp'.plan
                    ELSE plans[i]
    /\ Cardinality({i \in DOMAIN plans : plans[i].id = lastOp'.plan.id}) <= 1
    /\ activePlanId' = activePlanId

C8_ApplyPlanUpdate == [][UpdateStep => C8_UpdateStep]_vars

\* the second plan of two was replaced while the first one was active
C8_Witness ==
    /\ lastOp.name = "applyPlanUpdate"
    /\ Len(plans) = 2
    /\ plans[2] = lastOp.plan
    /\ activePlanId = plans[1].id
    /\ plans[1] # lastOp.plan

\* two collections equal field for field: a property absent in one and
\* undefined in the other counts as equal
SameDay(a, b) ==
    \A f \in (DOMAIN a) \cup (DOMAIN b) :
        /\ Defined(a, f) <=> Defined(b, f)
        /\ Defined(a, f) => a[f] = b[f]

FieldForField(ps, qs) ==
    /\ Len(ps) = Len(qs)
    /\ \A i \in DOMAIN ps :
        /\ [ps[i] EXCEPT !.days = <<>>] = [qs[i] EXCEPT !.days = <<>>]
        /\ Len(ps[i].days) = Len(qs[i].days)
        /\ \A j \in DOMAIN ps[i].days : SameDay(ps[i].days[j], qs[i].days[j])

\* C9: whenever the collection is not empty, storage holds a serialization of
\* the entire current collection, and loading the store from it yields a
\* collection equal to the current one field for field.
C9_StorageRoundTrip ==
    (mounted /\ Len(plans) > 0)
        => /\ storage.kind = "json"
           /\ FieldForField(LoadEffect(storage).plans, plans)

\* the collection in memory holds a day with an undefined title, a note and
\* an open session, which the stored document writes differently
C9_Witness ==
    /\ mounted
    /\ \E i \in DOMAIN plans : \E j \in DOMAIN plans[i].days :
        /\ "title" \in DOMAIN plans[i].days[j]
        /\ plans[i].days[j].title = UNDEF
        /\ "notes" \in DOMAIN plans[i].days[j]
        /\ IsRunning(SessionsOf(plans[i].days[j]))
    /\ storage.doc # plans

\* C10: a startup that finds stored data it cannot parse leaves the store
\* (collection, active plan id, view mode) as a startup that finds no stored
\* data leaves it.
C10_CorruptAsAbsent ==
    (lastOp.name = "startup" /\ storage = CorruptStorage)
        => [plans |-> plans, activePlanId |-> activePlanId, viewMode |-> viewMode]
           = LoadEffect(AbsentStorage)

\* C11: a successful refine(currentPlan, instruction) returns a plan whose
\* days are the replacement days of the response, in their order, whose
\* durationDays is the number of those days, whose lastUpdated is the current
\* time, and whose id, topic, dailyTime and startDate are those of currentPlan.
C11_RefineStep ==
    LET updated == lastOp'.plan
        currentPlan == refineReq[1]
        response == lastOp'.resp
    IN /\ Len(updated.days) = Len(response)
       /\ \A i \in DOMAIN response : updated.days[i].dayNumber = response[i]
       /\ updated.durationDays = Len(response)
       /\ updated.lastUpdated = now
       /\ updated.id = currentPlan.id
       /\ updated.topic = currentPlan.topic
       /\ updated.dailyTime = currentPlan.dailyTime
       /\ updated.startDate = currentPlan.startDate

C11_RefineResult == [][UpdateStep => C11_RefineStep]_vars

\* a plan of two days, refined after its creation into a plan of one day
C11_Witness ==
    /\ lastOp.name = "applyPlanUpdate"
    /\ Len(lastOp.resp) = 1
    /\ lastOp.plan.durationDays = 1
    /\ lastOp.plan.lastUpdated > lastOp.plan.startDate
    /\ \E i \in DOMAIN plans : plans[i] = lastOp.plan

\* C13: when the AI service returns zero days for a generation or a
\* refinement, or zero questions for a quiz, no plan with zero days is
\* produced or stored and no quiz with zero questions is started: the
\* operation ends in an error shown to the user.
C13_NoEmptyResult ==
    /\ \A i \in DOMAIN plans : Len(plans[i].days) > 0
    /\ generatedPlan # <<>> => Len(generatedPlan[1].days) > 0
    /\ (quiz.isOpen /\ ~quiz.loading /\ Len(quiz.questions) = 0) => quiz.error

\* C12: each call of generate, refine or generateQuiz issues exactly one
\* request to the AI service; when the request fails or its response cannot
\* be parsed the call fails with that same error, and no request is issued
\* besides the one of each call the user triggers.
C12_OneRequestNoRetry ==
    /\ svc.sent = svc.calls
    /\ svc.pc = "rejected" => (svc.raised # "none" /\ svc.thrown = svc.raised)
    /\ svc.pc = "resolved" => svc.raised = "none"

\* the user triggered the action a second time and the response of that
\* call could not be parsed
C12_Witness ==
    /\ svc.pc = "rejected"
    /\ svc.calls = 2
    /\ svc.sent = 2
    /\ svc.thrown = "The model generated an invalid format. Please try again."

\* a step during which the quiz modal stays open
StaysOpen == quiz.isOpen /\ quiz'.isOpen /\ quiz' # quiz

\* C14: while a quiz modal stays open the flow is linear: Loading, then
\* InProgress at question index 0, 1, 2, ... in increasing order, then
\* Results.  The index never decreases and Results is never left; the index
\* advances only when the current question has a recorded answer, and the
\* next action on the final question moves to Results.
C14_LinearStep ==
    /\ quiz'.currentIndex >= quiz.currentIndex
    /\ Phase(quiz) = "Results" => Phase(quiz') = "Results"
    /\ Phase(quiz) = "Loading" =>
          \/ Phase(quiz') \in {"Loading", "Error"}
          \/ Phase(quiz') = "InProgress" /\ quiz'.currentIndex = 0
    /\ Phase(quiz) = "InProgress" =>
          \/ Phase(quiz') = "Results"
          \/ /\ Phase(quiz') = "InProgress"
             /\ quiz'.currentIndex \in {quiz.currentIndex, quiz.currentIndex + 1}
    /\ quiz'.currentIndex > quiz.currentIndex =>
          AnswerAt(quiz.userAnswers, quiz.currentIndex) # Undefined
    /\ (quiz'.last = "next" /\ quiz.currentIndex = Len(quiz.questions) - 1) =>
          Phase(quiz') = "Results"

C14_LinearFlow == [][StaysOpen => C14_LinearStep]_vars

\* C15: in Results the score is the number of question positions whose
\* recorded answer index equals the question's correctAnswerIndex, and a
\* position with no recorded answer never counts as correct, for every list
\* of questions the service can return.
C15_ScoreCountsMatches ==
    Phase(quiz) = "Results" =>
        calculateScore(quiz.questions, quiz.userAnswers)
            = Cardinality({i \in DOMAIN quiz.questions :
                /\ AnswerAt(quiz.userAnswers, i - 1) # Undefined
                /\ AnswerAt(quiz.userAnswers, i - 1)
                        = quiz.questions[i].correctAnswerIndex})

\* C16: a failure during quiz generation puts the quiz in an Error display
\* that is terminal: while the modal stays open the quiz never moves from
\* Error to any other display.
C16_ErrorIsTerminal ==
    [][(StaysOpen /\ Phase(quiz) = "Error") => Phase(quiz') = "Error"]_vars

\* the days of a year before a month, the days since the first day of year 0,
\* and the date a number of days after a date
RECURSIVE DaysBefore(_)
DaysBefore(m) == IF m = 1 THEN 0 ELSE DaysBefore(m - 1) + DaysIn(m - 1)
Ordinal(date) ==
    date.year * DaysBefore(MonthsPerYear + 1) + DaysBefore(date.month) + date.day
AllDates ==
    {date \in [year : 0..(MaxYear + 1), month : Months, day : 1..3] :
        date.day <= DaysIn(date.month)}
PlusDays(date, k) == CHOOSE d \in AllDates : Ordinal(d) = Ordinal(date) + k

\* the date of the day at a position of the calendar's plan
DateOfDay(j) == getDayDate(cal.plan.startDate, cal.plan.days[j].dayNumber)

\* C17: the calendar date of day N is the plan's start date plus N - 1 days,
\* day 1 falling on the start date itself, across month and year boundaries;
\* a day is shown for the viewed month exactly when its date lies in it.
C17_DayDates ==
    cal.mounted =>
        \A j \in DOMAIN cal.plan.days :
            LET N == cal.plan.days[j].dayNumber
                date == PlusDays(cal.plan.startDate, N - 1)
            IN /\ DateOfDay(j) = date
               /\ N = 1 => DateOfDay(j) = cal.plan.startDate
               /\ j \in CurrentDays(cal.plan, cal.viewDate)
                    <=> (date.month = cal.viewDate.month
                         /\ date.year = cal.viewDate.year)

\* a plan started on the last day of a year, whose third day, the second day
\* of the next year, is shown in the viewed month
C17_Witness ==
    /\ cal.mounted
    /\ cal.plan.startDate.month = MonthsPerYear
    /\ cal.plan.startDate.day = DaysIn(MonthsPerYear)
    /\ \E j \in CurrentDays(cal.plan, cal.viewDate) :
        /\ cal.plan.days[j].dayNumber = 3
        /\ DateOfDay(j) = [year |-> cal.plan.startDate.year + 1, month |-> 1,
                           day |-> 2]
    /\ 1 \notin CurrentDays(cal.plan, cal.viewDate)

\* the status of a day by the order of precedence: completed, missed, today,
\* upcoming
StatusOf(day, date, today) ==
    IF AllCompleted(day) THEN "completed"
    ELSE IF DateLT(date, today) THEN "missed"
    ELSE IF date = today THEN "today"
    ELSE "upcoming"

\* C18: the background of a day shown and the border of a day shown that is
\* not selected paint the status decided in this order: all tasks completed
\* gives completed, else a date before today gives missed, else a date equal
\* to today gives today, else upcoming; a day of today whose tasks are all
\* completed is painted completed.
C18_StatusPrecedence ==
    cal.mounted =>
        \A j \in CurrentDays(cal.plan, cal.viewDate) :
            LET day == cal.plan.days[j]
                status == StatusOf(day, DateOfDay(j), cal.today)
            IN /\ getStatusColor(day, DateOfDay(j), cal.today) = status
               /\ day.dayNumber # cal.selectedDay =>
                    getBorderClass(day, DateOfDay(j), cal.today, FALSE) = status

\* C19: a day without tasks is never painted completed: neither by its
\* background, nor by its border, nor by a check mark, nor by its progress bar.
C19_EmptyDayNeverCompleted ==
    cal.mounted =>
        \A j \in CurrentDays(cal.plan, cal.viewDate) :
            LET day == cal.plan.days[j]
            IN Len(day.tasks) = 0 =>
                /\ getStatusColor(day, DateOfDay(j), cal.today) # "completed"
                /\ getBorderClass(day, DateOfDay(j), cal.today,
                                  day.dayNumber = cal.selectedDay) # "completed"
                /\ ~CheckMark(day)
                /\ ProgressBarClass(day) # "completed"

\* C20: the viewed month lies between the month of the start date and the
\* month of the plan's last day (start date + durationDays - 1), inclusive,
\* initially, after the view follows the selected day and after any
\* previous or next requests.
C20_ViewWithinPlanMonths ==
    cal.mounted =>
        /\ DateLE(FirstOfMonth(cal.plan.startDate), cal.viewDate)
        /\ DateLE(cal.viewDate,
                  FirstOfMonth(PlusDays(cal.plan.startDate,
                                        cal.plan.durationDays - 1)))

\* ------------------------------------------------------------------ C21
\* the calendar day a timestamp falls on
CalendarDay(t) == t \div TicksPerDay

\* the whole calendar days from the day a plan starts on to today
DaysFromStart(plan, t) == CalendarDay(t) - CalendarDay(plan.startDate)

\* today falls within [start date, start date + totalDays)
TodayInRange(plan, t) ==
    /\ 0 <= DaysFromStart(plan, t)
    /\ DaysFromStart(plan, t) < plan.durationDays

\* a plan is opened: the page is loaded with a stored plan, or another plan
\* of the sidebar is clicked
OpenStep ==
    /\ steps' = steps + 1
    /\ lastOp'.name \in {"startup", "selectPlan"}
    /\ lastOp'.name = "selectPlan" => activePlanId' # activePlanId
    /\ FindPlan(plans', activePlanId') # <<>>

\* the selected day the operation leaves when no day is auto-selected
Unselected == IF lastOp'.name = "startup" THEN NoDay ELSE selectedDay

\* C21: on opening a plan, when today's date falls within [start date, start
\* date + totalDays), the start date itself included, the day whose
\* day-number is the whole days from the start date to today plus one is
\* selected (when the plan has such a day); when today is outside that range
\* no day is auto-selected.
C21_AutoSelectOnOpen ==
    [][OpenStep =>
        LET plan == FindPlan(plans', activePlanId')[1]
            target == DaysFromStart(plan, now) + 1
        IN /\ (TodayInRange(plan, now) /\ FindDay(plan.days, target) # <<>>)
                => selectedDay' = target
           /\ ~TodayInRange(plan, now) => selectedDay' = Unselected]_vars

\* ------------------------------------------------------------------ C22
\* C22: in every plan of the store, after any sequence of generate, refine,
\* createPlan and applyPlanUpdate, the day-numbers of the plan's days are
\* pairwise distinct: a day-number addresses at most one day.
C22_DistinctDayNumbers ==
    \A i \in DOMAIN plans :
        \A j, k \in DOMAIN plans[i].days :
            plans[i].days[j].dayNumber = plans[i].days[k].dayNumber => j = k

\* ------------------------------------------------------------------ C23
ProgressStep ==
    /\ steps' = steps + 1
    /\ lastOp'.name \in {"toggleTask", "updateNotes", "toggleSession"}

\* C23: toggleTask, updateNotes and toggleSession leave the selected day
\* unchanged: once the operation and the effects it triggers have settled, the
\* selected day-number is the one selected before the operation.
C23_KeepsSelectedDay == [][ProgressStep => selectedDay' = selectedDay]_vars

\* ------------------------------------------------------------------ C24
\* the response of a superseded request arrives: only such a step takes a
\* request out of those of earlier runs of the generation effect
LateResponseStep == quiz'.stale < quiz.stale

\* C24: the response, success or failure, of a request superseded by a later
\* run of the generation effect (the modal closed and reopened, or its context
\* changed, while the request was in flight) sets neither the questions nor
\* the error nor the loading flag.
C24_LateResponseIgnored ==
    [][LateResponseStep =>
        /\ quiz'.questions = quiz.questions
        /\ quiz'.error = quiz.error
        /\ quiz'.loading = quiz.loading]_vars

\* ------------------------------------------------------------------ C25
\* the page is loaded again right after a deletePlan
RestartAfterDelete ==
    /\ steps' = steps + 1
    /\ lastOp.name = "deletePlan"
    /\ lastOp'.name = "startup"

\* C25: a plan removed by deletePlan is not part of the collection hydrated
\* at the next startup, the deletion of the last remaining plan included.
C25_DeletedNotHydrated ==
    [][RestartAfterDelete => FindPlan(plans', lastOp.id) = <<>>]_vars

\* ------------------------------------------------------------------ C26
\* C26: a refinement response, whenever it arrives, is applied only to the
\* plan the request was issued for: when that plan was deleted meanwhile the
\* collection is left unchanged (the plan is not re-added), and when another
\* plan is active by then, the active plan is not modified.
C26_LateResponseStep ==
    LET id == refineReq[1].id
    IN /\ FindPlan(plans, id) = <<>> => plans' = plans
       /\ FindPlan(plans', id) # <<>> => FindPlan(plans, id) # <<>>
       /\ activePlanId # id =>
            FindPlan(plans', activePlanId') = FindPlan(plans, activePlanId)
       /\ \A i \in DOMAIN plans :
            plans[i].id # id => (i \in DOMAIN plans' /\ plans'[i] = plans[i])

C26_OnlyRequestedPlan == [][UpdateStep => C26_LateResponseStep]_vars

\* the response arrived after the plan of the request was deleted: the
\* collection has no plan with its id
C26_Witness ==
    /\ lastOp.name = "applyPlanUpdate"
    /\ Len(lastOp.plan.days) > 0
    /\ FindPlan(plans, lastOp.id) = <<>>

\* ------------------------------------------------------------------ C27
\* a plan with no progress: no task completed, no notes and no sessions
NoProgress(plan) ==
    \A j \in DOMAIN plan.days :
        /\ "notes" \notin DOMAIN plan.days[j]
        /\ "sessions" \notin DOMAIN plan.days[j]
        /\ \A k \in DOMAIN plan.days[j].tasks : ~plan.days[j].tasks[k].isCompleted

\* C27: after a successful refinement is applied to a stored plan, every task
\* of the plan is not completed and every day has no notes and no sessions,
\* whatever progress the plan held when the response arrived.
C27_RefinementResetsProgress ==
    [][UpdateStep =>
        \A i \in DOMAIN plans' :
            plans'[i].id = lastOp'.id => NoProgress(plans'[i])]_vars

\* the refined plan is stored in place of a plan that had a completed task,
\* notes and a session, and it has days
C27_Witness ==
    /\ lastOp.name = "applyPlanUpdate"
    /\ lastOp.before # <<>>
    /\ \E j \in DOMAIN lastOp.before[1].days :
         LET day == lastOp.before[1].days[j]
         IN /\ "notes" \in DOMAIN day
            /\ "sessions" \in DOMAIN day
            /\ \E k \in DOMAIN day.tasks : day.tasks[k].isCompleted
    /\ \E i \in DOMAIN plans :
         plans[i].id = lastOp.id /\ Len(plans[i].days) > 0 /\ NoProgress(plans[i])

\* ------------------------------------------------------------------ C28
EditFailStep == lastOp'.name = "editFail" /\ steps' = steps + 1
WizardFailStep == lastOp'.name = "wizardRefineFail" /\ steps' = steps + 1

\* a failed request of the edit modal: the collection is unchanged and, in
\* the modal that sent it, an error message is appended to the chat and a
\* new request is accepted
EditFailHandled ==
    /\ plans' = plans
    /\ storage' = storage
    /\ ~ui.detached =>
         /\ ui'.messages = Append(ui.messages, "error")
         /\ ~ui'.isUpdating

\* a failed request of the wizard preview: the previewed plan is not changed,
\* it is the plan the request was issued with, and refining is enabled again
WizardFailHandled ==
    /\ plans' = plans
    /\ generatedPlan' = generatedPlan
    /\ generatedPlan' = ui.originalPlan
    /\ ~ui'.isRefining

\* C28: a failed refinement changes no plan: when the request fails in the
\* edit modal the plan collection is unchanged, an error message is appended
\* to the chat and the modal accepts a new request; when it fails in the
\* wizard preview the previewed plan equals the plan before the request and
\* refining is enabled again.
C28_FailedRefinementChangesNoPlan ==
    [][/\ EditFailStep => EditFailHandled
       /\ WizardFailStep => WizardFailHandled]_vars

\* ------------------------------------------------------------------ C29
\* C29: in every state after startup, the active plan id is none or the id of
\* a plan of the collection, and it is none only when the collection is empty.
C29_ActivePlanInCollection ==
    mounted =>
        /\ activePlanId = NoId \/ FindPlan(plans, activePlanId) # <<>>
        /\ activePlanId = NoId => plans = <<>>

\* a plan of a collection of two was deleted, and the plan left is active
C29_Witness ==
    /\ mounted
    /\ lastOp.name = "deletePlan"
    /\ Len(plans) = 1
    /\ activePlanId = plans[1].id
    /\ lastOp.id # activePlanId

\* ------------------------------------------------------------------ C30
\* C30: once quiz questions have loaded, the current question index satisfies
\* 0 <= index < number of questions, so that the open modal always displays a
\* question with its 'next' action, or the results.
C30_IndexWithinQuestions ==
    Len(quiz.questions) > 0 =>
        /\ 0 <= quiz.currentIndex
        /\ quiz.currentIndex < Len(quiz.questions)
        /\ Phase(quiz) # "Preparing"

====
